---- MODULE Spec2Model ----
(***************************************************************************)
(* A model of anvio's low-level database layer (src/anvio/db.py, class DB) *)
(* over an abstract sqlite backend.                                        *)
(*                                                                         *)
(* A file is a set of named tables; a table is its ordered column names    *)
(* and its rows in stored order.  `disk` is what has been committed to     *)
(* each path, `live` is what the open connection sees (committed content   *)
(* plus the statements of its still open transaction).                     *)
(*                                                                         *)
(* Python values are tagged records: None, an int, or a str.  A str is a   *)
(* sequence of one-character strings, so that int() and str() are computed *)
(* character by character.                                                 *)
(*                                                                         *)
(* The last part models the parse loop of Palindromes.find                 *)
(* (src/anvio/sequencefeatures.py): `hsps` are the records of the search   *)
(* report still to be read, `positions_processed` and `palindromes` are    *)
(* the loop's set of positions and the list recorded for the sequence.     *)
(***************************************************************************)
EXTENDS Integers, Sequences, FiniteSets, TLC

VARIABLES disk, live, handle, last, hsps, positions_processed, palindromes

dbvars == <<disk, live, handle, last>>

palvars == <<hsps, positions_processed, palindromes>>

vars == <<disk, live, handle, last, hsps, positions_processed, palindromes>>

(* no search is under way *)
NoSearch ==
    /\ hsps = <<>>
    /\ positions_processed = {}
    /\ palindromes = <<>>

----------------------------------------------------------------------------
(* Bounds of the model.                                                    *)

MaxTextLen == 2
MaxMetaRows == 2

----------------------------------------------------------------------------
(* Python values, str() and int().                                         *)

PyNone == [t |-> "none", v |-> <<>>]
PyInt(n) == [t |-> "int", v |-> n]
PyStr(s) == [t |-> "str", v |-> s]

Digits == {"0", "1", "2", "3", "4", "5", "6", "7", "8", "9"}

DigitVal(c) ==
    CASE c = "0" -> 0 [] c = "1" -> 1 [] c = "2" -> 2 [] c = "3" -> 3
      [] c = "4" -> 4 [] c = "5" -> 5 [] c = "6" -> 6 [] c = "7" -> 7
      [] c = "8" -> 8 [] c = "9" -> 9

DigitChar(d) ==
    CASE d = 0 -> "0" [] d = 1 -> "1" [] d = 2 -> "2" [] d = 3 -> "3"
      [] d = 4 -> "4" [] d = 5 -> "5" [] d = 6 -> "6" [] d = 7 -> "7"
      [] d = 8 -> "8" [] d = 9 -> "9"

RECURSIVE NatToText(_)
NatToText(n) ==
    IF n < 10 THEN <<DigitChar(n)>>
    ELSE NatToText(n \div 10) \o <<DigitChar(n % 10)>>

(* str(n) of a Python int *)
IntToText(n) == IF n < 0 THEN <<"-">> \o NatToText(0 - n) ELSE NatToText(n)

(* str(x): the display form used by the version comparison *)
Str(x) ==
    CASE x.t = "none" -> <<"N", "o", "n", "e">>
      [] x.t = "int" -> IntToText(x.v)
      [] x.t = "str" -> x.v

(* s.strip(): int() ignores leading and trailing whitespace *)
RECURSIVE LStrip(_)
LStrip(s) == IF s # <<>> /\ Head(s) = " " THEN LStrip(Tail(s)) ELSE s

RECURSIVE RStrip(_)
RStrip(s) ==
    IF s # <<>> /\ s[Len(s)] = " " THEN RStrip(SubSeq(s, 1, Len(s) - 1)) ELSE s

Strip(s) == RStrip(LStrip(s))

(* the digits of an int() literal: digits, single underscores between them *)
IsDigitBody(b) ==
    /\ b # <<>>
    /\ \A i \in 1..Len(b) : b[i] \in Digits \/ b[i] = "_"
    /\ b[1] \in Digits
    /\ b[Len(b)] \in Digits
    /\ \A i \in 1..(Len(b) - 1) : ~(b[i] = "_" /\ b[i + 1] = "_")

RECURSIVE DigitsValue(_, _)
DigitsValue(b, acc) ==
    IF b = <<>> THEN acc
    ELSE IF Head(b) = "_" THEN DigitsValue(Tail(b), acc)
    ELSE DigitsValue(Tail(b), 10 * acc + DigitVal(Head(b)))

HasSign(s) == s # <<>> /\ Head(s) \in {"+", "-"}

Unsigned(s) == IF HasSign(s) THEN Tail(s) ELSE s

(* int(s) succeeds *)
IntParses(s) == IsDigitBody(Unsigned(Strip(s)))

(* int(s), where it succeeds *)
IntValue(s) ==
    LET b == Strip(s)
        n == DigitsValue(Unsigned(b), 0)
    IN  IF HasSign(b) /\ Head(b) = "-" THEN 0 - n ELSE n

(* what a column of TEXT affinity stores for a bound parameter *)
SqlText(x) == IF x.t = "int" THEN PyStr(IntToText(x.v)) ELSE x

----------------------------------------------------------------------------
(* Files, tables and results.                                              *)

Paths == {"p1", "p2"}

K_version == <<"v", "e", "r", "s", "i", "o", "n">>
K_key == <<"k", "e", "y">>
K_value == <<"v", "a", "l", "u", "e">>

Table(cols, rows) == [cols |-> cols, rows |-> rows]

NoFile == [exists |-> FALSE, tables |-> <<>>]
File(tables) == [exists |-> TRUE, tables |-> tables]

HasTable(f, name) == name \in DOMAIN f.tables

Rows(f, name) == f.tables[name].rows

WithTable(f, name, tbl) ==
    File([n \in DOMAIN f.tables \cup {name} |->
            IF n = name THEN tbl ELSE f.tables[n]])

WithoutTable(f, name) ==
    File([n \in DOMAIN f.tables \ {name} |-> f.tables[n]])

WithRows(f, name, rows) ==
    WithTable(f, name, Table(f.tables[name].cols, rows))

Ok(val) == [kind |-> "ok", val |-> val]
Raise(kind) == [kind |-> kind, val |-> PyNone]

Closed == [open |-> FALSE, path |-> "", version |-> PyNone]

----------------------------------------------------------------------------
(* The metadata table and the version gate.                                *)

(* a get that hands out what is stored, as stored *)
get_meta_value_NoCoercion(f, key) ==
    IF ~HasTable(f, "self") THEN Raise("OperationalError")
    ELSE LET rows == SelectSeq(Rows(f, "self"), LAMBDA r : r[1] = key)
         IN  IF rows = <<>> THEN Raise("ConfigError") ELSE Ok(rows[1][2])

(* DB.get_meta_value: the first matching row, None passed through, an      *)
(* int where int() parses the text, the text itself otherwise.             *)
get_meta_value(f, key) ==
    IF ~HasTable(f, "self") THEN Raise("OperationalError")
    ELSE LET rows == SelectSeq(Rows(f, "self"), LAMBDA r : r[1] = key)
         IN  IF rows = <<>> THEN Raise("ConfigError")
             ELSE LET val == rows[1][2]
                  IN  IF val.t = "none" THEN Ok(PyNone)
                      ELSE IF val.t = "str" /\ IntParses(val.v)
                           THEN Ok(PyInt(IntValue(val.v)))
                      ELSE Ok(val)

(* DB.get_version: whatever goes wrong is reported as a ConfigError *)
get_version(f) ==
    LET r == get_meta_value(f, K_version)
    IN  IF r.kind = "ok" THEN r ELSE Raise("ConfigError")

(* a gate that forgets the override *)
VersionMismatch_NoOverride(version, client_version, ignore_version) ==
    Str(version) # Str(client_version)

(* the condition under which DB.__init__ refuses an existing database *)
VersionMismatch(version, client_version, ignore_version) ==
    Str(version) # Str(client_version) /\ ~ignore_version

(* DB.create_self followed by DB.set_version on an empty file *)
FreshFile(client_version) ==
    File("self" :> Table(<<"key", "value">>,
                         << <<K_version, SqlText(client_version)>> >>))

(* a creation that connects to the file that is already there *)
Removed_Kept(f) == f

(* lines 36-37: a file already at the path of a new database is removed *)
Removed(f) == NoFile

(* DB.create_self followed by DB.set_version in the file connected to *)
CreatedIn(f, client_version) ==
    WithTable(f, "self", FreshFile(client_version).tables["self"])

----------------------------------------------------------------------------
(* Opening, creating and closing a database.                               *)

InitCall(db_path, client_version, new_database, ignore_version, outcome) ==
    [op |-> "init", path |-> db_path, client_version |-> client_version,
     new_database |-> new_database, ignore_version |-> ignore_version,
     outcome |-> outcome, pre |-> disk[db_path]]

(* DB.__init__.  The paths of the model are writable; a path without a     *)
(* file fails the existence check of an open.  A constructor that raises   *)
(* leaves no handle behind.                                                *)
DB_init(db_path, client_version, new_database, ignore_version) ==
    /\ UNCHANGED palvars
    /\ ~handle.open
    /\ LET pre == disk[db_path]
           v == get_version(pre)
           Fail == /\ last' = InitCall(db_path, client_version, new_database,
                                       ignore_version, "ConfigError")
                   /\ UNCHANGED <<disk, live, handle>>
       IN  IF new_database
           THEN LET connected == Removed(pre)
                IN  IF HasTable(connected, "self")
                    THEN /\ last' = InitCall(db_path, client_version, new_database,
                                             ignore_version, "OperationalError")
                         /\ UNCHANGED <<disk, live, handle>>
                    ELSE /\ disk' = [disk EXCEPT ![db_path] =
                                        CreatedIn(connected, client_version)]
                         /\ live' = CreatedIn(connected, client_version)
                         /\ handle' = [open |-> TRUE, path |-> db_path,
                                       version |-> PyNone]
                         /\ last' = InitCall(db_path, client_version, new_database,
                                             ignore_version, "ok")
           ELSE IF ~pre.exists THEN Fail
           ELSE IF v.kind # "ok" THEN Fail
           ELSE IF VersionMismatch(v.val, client_version, ignore_version)
                THEN Fail
           ELSE /\ live' = pre
                /\ handle' = [open |-> TRUE, path |-> db_path,
                              version |-> v.val]
                /\ last' = InitCall(db_path, client_version, new_database,
                                    ignore_version, "ok")
                /\ UNCHANGED disk

(* DB.disconnect: commit, then close *)
disconnect ==
    /\ UNCHANGED palvars
    /\ handle.open
    /\ disk' = [disk EXCEPT ![handle.path] = live]
    /\ live' = NoFile
    /\ handle' = Closed
    /\ last' = [op |-> "disconnect"]

----------------------------------------------------------------------------
(* The version gate on its own: an existing file with any stored version   *)
(* text, opened or re-created with any client version.                     *)

Chars == {"0", "5", " ", "a"}

Texts == UNION {[1..n -> Chars] : n \in 0..MaxTextLen}

StoredValues == {PyNone} \cup {PyStr(s) : s \in Texts}

ClientVersions ==
    StoredValues \cup {PyInt(IntValue(s)) : s \in {x \in Texts : IntParses(x)}}

SeqsUpTo(S, n) == UNION {[1..k -> S] : k \in 0..n}

(* metadata tables of at most MaxMetaRows rows: one `version` row with any *)
(* stored value, placed anywhere among rows of other entries               *)
OtherMetaRows == {<<(<<"k">>), PyStr(<<"a">>)>>, <<K_version, PyStr(<<"a">>)>>}

GateMetaTables ==
    SeqsUpTo(OtherMetaRows, MaxMetaRows) \cup
    UNION {{SubSeq(b, 1, i) \o << <<K_version, x>> >> \o SubSeq(b, i + 1, Len(b)) :
                i \in 0..Len(b), x \in StoredValues} :
           b \in SeqsUpTo(OtherMetaRows, MaxMetaRows - 1)}

GateUserTable == Table(<<"id", "seq">>, << <<PyStr(<<"a">>), PyStr(<<"0">>)>> >>)

GateFiles ==
    {File(<<>>), File("t" :> GateUserTable)} \cup
    {File("self" :> Table(<<"key", "value">>, m) @@ "t" :> GateUserTable) :
        m \in GateMetaTables}

InitGate ==
    /\ NoSearch
    /\ disk \in {[p \in Paths |-> IF p = "p1" THEN f ELSE NoFile] : f \in GateFiles}
    /\ live = NoFile
    /\ handle = Closed
    /\ last = [op |-> "none"]

(* an open that is refused leaves everything as it was: a behaviour goes   *)
(* on only from an open that succeeded, by closing the store               *)
NextGate ==
    \/ /\ last.op \in {"none", "disconnect"}
       /\ \E cv \in ClientVersions, new_database \in BOOLEAN, ignore_version \in BOOLEAN :
             DB_init("p1", cv, new_database, ignore_version)
    \/ disconnect

SpecGate == InitGate /\ [][NextGate]_vars

----------------------------------------------------------------------------
(* The dict materializer.  Column positions are Python's, counted from 0;  *)
(* a TLA+ sequence holds position i at index i + 1.                        *)

(* an optional collection argument: None, or the collection given *)
NoneArg == [none |-> TRUE, s |-> {}]
Given(S) == [none |-> FALSE, s |-> S]

(* Python's truth value of such an argument: None and empty are false *)
Truthy(a) == ~a.none /\ a.s # {}

InSeq(x, s) == \E i \in 1..Len(s) : s[i] = x

(* list.index(x), counted from 0, for x in the list *)
IndexOf(x, s) == (CHOOSE i \in 1..Len(s) : s[i] = x /\ \A j \in 1..(i - 1) : s[j] # x) - 1

(* list.remove(x) for x in the list: the first occurrence goes *)
RemoveFirst(x, s) ==
    LET i == IndexOf(x, s) + 1
    IN  SubSeq(s, 1, i - 1) \o SubSeq(s, i + 1, Len(s))

(* s[1:] *)
From1(s) == SubSeq(s, 2, Len(s))

(* list(range(0, n)) *)
RECURSIVE Range0(_)
Range0(n) == IF n = 0 THEN <<>> ELSE Range0(n - 1) \o <<n - 1>>

(* lines 196-199: the parent column leaves the positions and the names *)
OmitParent(st) ==
    IF InSeq("__parent__", st.structure)
    THEN [structure |-> RemoveFirst("__parent__", st.structure),
          columns |-> RemoveFirst(IndexOf("__parent__", st.structure), st.columns),
          kind |-> "ok"]
    ELSE st

(* lines 202-204: for each name after the first that is not of interest,   *)
(* remove its position in the (current) names from the positions; removing *)
(* a position that is not there raises ValueError                          *)
RECURSIVE DropColumns(_, _, _)
DropColumns(todo, st, columns_of_interest) ==
    IF todo = <<>> \/ st.kind # "ok" THEN st
    ELSE LET col == Head(todo)
             idx == IndexOf(col, st.structure)
         IN  IF col \in columns_of_interest.s
             THEN DropColumns(Tail(todo), st, columns_of_interest)
             ELSE IF ~InSeq(idx, st.columns)
                  THEN [st EXCEPT !.kind = "ValueError"]
             ELSE DropColumns(Tail(todo),
                              [st EXCEPT !.columns = RemoveFirst(idx, st.columns)],
                              columns_of_interest)

(* lines 194-204: the names and the positions to return *)
ColumnsToReturn(table_structure, columns_of_interest, omit_parent_column) ==
    LET st0 == [structure |-> table_structure,
                columns |-> Range0(Len(table_structure)),
                kind |-> "ok"]
        st1 == IF omit_parent_column THEN OmitParent(st0) ELSE st0
    IN  IF Truthy(columns_of_interest)
        THEN DropColumns(From1(st1.structure), st1, columns_of_interest)
        ELSE st1

(* the key of a row in the result *)
DictKey(row, string_the_key) ==
    IF string_the_key THEN PyStr(Str(row[1])) ELSE row[1]

(* lines 232-233: the entry of a row; a position past the end of the names *)
(* raises IndexError                                                       *)
EntryOverflows(structure, columns) ==
    \E k \in 2..Len(columns) : columns[k] >= Len(structure)

(* an entry that keeps the key column as a field *)
Entry_WithKeyColumn(row, structure, columns) ==
    [name \in {structure[columns[k] + 1] : k \in 1..Len(columns)} |->
        row[IndexOf(name, structure) + 1]]

Entry(row, structure, columns) ==
    LET ks == 2..Len(columns)
    IN  [name \in {structure[columns[k] + 1] : k \in ks} |->
            LET k == CHOOSE k \in ks :
                        /\ structure[columns[k] + 1] = name
                        /\ \A j \in ks : structure[columns[j] + 1] = name => j <= k
            IN  row[columns[k] + 1]]

(* results_dict[key] = entry *)
Put(d, key, entry) ==
    [k \in DOMAIN d \cup {key} |-> IF k = key THEN entry ELSE d[k]]

(* lines 220-238: the loop over the rows.  keys_of_interest is tested for  *)
(* truth at every row and loses each key it matches.                       *)
RECURSIVE ScanRows(_, _, _, _, _, _)
ScanRows(rows, structure, columns, string_the_key, keys_of_interest, results_dict) ==
    IF rows = <<>> THEN Ok(results_dict)
    ELSE LET row == Head(rows)
         IN  IF Truthy(keys_of_interest) /\ row[1] \notin keys_of_interest.s
             THEN ScanRows(Tail(rows), structure, columns, string_the_key,
                           keys_of_interest, results_dict)
             ELSE IF EntryOverflows(structure, columns) THEN Raise("IndexError")
             ELSE ScanRows(Tail(rows), structure, columns, string_the_key,
                           IF Truthy(keys_of_interest)
                           THEN Given(keys_of_interest.s \ {row[1]})
                           ELSE keys_of_interest,
                           Put(results_dict, DictKey(row, string_the_key),
                               Entry(row, structure, columns)))

(* DB.get_table_as_dict, with the structure read from the table *)
table_as_dict(f, table, string_the_key, columns_of_interest, keys_of_interest, omit_parent_column, error_if_no_data) ==
    IF ~HasTable(f, table) THEN Raise("OperationalError")
    ELSE LET st == ColumnsToReturn(f.tables[table].cols, columns_of_interest,
                                   omit_parent_column)
         IN  IF st.kind # "ok" THEN Raise(st.kind)
             ELSE IF Len(st.columns) = 1
                  THEN IF error_if_no_data THEN Raise("ConfigError") ELSE Ok(<<>>)
             ELSE ScanRows(Rows(f, table), st.structure, st.columns, string_the_key,
                           keys_of_interest, <<>>)

(* a where clause `column = value` *)
Where(column, value) == [column |-> column, value |-> value]

Matches(f, table, where_clause) ==
    LET i == IndexOf(where_clause.column, f.tables[table].cols) + 1
    IN  SelectSeq(Rows(f, table), LAMBDA r : r[i] = where_clause.value)

(* the answer to no data, always an error *)
NoDataIsError_Always(error_if_no_data, results_dict) == results_dict = <<>>

(* line 269: the answer of get_some_rows_from_table_as_dict to no data *)
NoDataIsError(error_if_no_data, results_dict) ==
    error_if_no_data /\ results_dict = <<>>

(* DB.get_some_rows_from_table_as_dict *)
some_rows_as_dict(f, table, where_clause, error_if_no_data, string_the_key) ==
    IF ~HasTable(f, table) THEN Raise("OperationalError")
    ELSE IF ~InSeq(where_clause.column, f.tables[table].cols)
         THEN Raise("OperationalError")
    ELSE LET table_structure == f.tables[table].cols
             results_dict ==
                 ScanRows(Matches(f, table, where_clause), table_structure,
                          Range0(Len(table_structure)), string_the_key,
                          NoneArg, <<>>).val
         IN  IF NoDataIsError(error_if_no_data, results_dict)
             THEN Raise("ConfigError")
             ELSE Ok(results_dict)

(* DB._exec of a statement that succeeds commits what the connection sees *)
Committed == [disk EXCEPT ![handle.path] = live]

get_table_as_dict(table, string_the_key, columns_of_interest, keys_of_interest, omit_parent_column, error_if_no_data) ==
    /\ UNCHANGED palvars
    /\ handle.open
    /\ last' = [op |-> "as_dict", table |-> table,
                string_the_key |-> string_the_key,
                columns_of_interest |-> columns_of_interest,
                keys_of_interest |-> keys_of_interest,
                omit_parent_column |-> omit_parent_column,
                error_if_no_data |-> error_if_no_data,
                out |-> table_as_dict(live, table, string_the_key,
                                      columns_of_interest, keys_of_interest,
                                      omit_parent_column, error_if_no_data)]
    /\ disk' = IF HasTable(live, table) THEN Committed ELSE disk
    /\ UNCHANGED <<live, handle>>

get_some_rows_from_table_as_dict(table, where_clause, error_if_no_data, string_the_key) ==
    /\ UNCHANGED palvars
    /\ handle.open
    /\ last' = [op |-> "as_dict_where", table |-> table,
                where_clause |-> where_clause,
                error_if_no_data |-> error_if_no_data,
                string_the_key |-> string_the_key,
                out |-> some_rows_as_dict(live, table, where_clause,
                                          error_if_no_data, string_the_key)]
    /\ disk' = IF HasTable(live, table) THEN Committed ELSE disk
    /\ UNCHANGED <<live, handle>>

----------------------------------------------------------------------------
(* The materializer on its own: an open store holding one table `t` of any *)
(* structure and rows, read with any arguments.                            *)

MaxRows == 2

ColNames == {"id", "__parent__", "seq"}

(* the lists of distinct column names *)
Structures ==
    {c \in UNION {[1..n -> ColNames] : n \in 1..Cardinality(ColNames)} :
        \A i, j \in 1..Len(c) : i # j => c[i] # c[j]}

CellValues == {PyInt(5), PyStr(<<"5">>)}

DictTables ==
    UNION {{Table(c, r) : r \in SeqsUpTo([1..Len(c) -> CellValues], MaxRows)} :
           c \in Structures}

OptionalSubsets(S) == {NoneArg} \cup {Given(x) : x \in SUBSET S}

InitDict ==
    /\ NoSearch
    /\ \E tbl \in DictTables :
          /\ live = WithTable(FreshFile(PyInt(5)), "t", tbl)
          /\ disk = [p \in Paths |-> IF p = "p1" THEN live ELSE NoFile]
    /\ handle = [open |-> TRUE, path |-> "p1", version |-> PyInt(5)]
    /\ last = [op |-> "none"]

(* a read changes nothing a later read depends on: one read per behaviour *)
NextDict ==
    \/ /\ last.op = "none"
       /\ \E string_the_key \in BOOLEAN, omit_parent_column \in BOOLEAN,
             error_if_no_data \in BOOLEAN,
             columns_of_interest \in OptionalSubsets(ColNames),
             keys_of_interest \in OptionalSubsets(CellValues) :
             get_table_as_dict("t", string_the_key, columns_of_interest,
                               keys_of_interest, omit_parent_column,
                               error_if_no_data)
    \/ /\ last.op = "none"
       /\ \E column \in ColNames, value \in CellValues,
             error_if_no_data \in BOOLEAN, string_the_key \in BOOLEAN :
             get_some_rows_from_table_as_dict("t", Where(column, value),
                                              error_if_no_data, string_the_key)

SpecDict == InitDict /\ [][NextDict]_vars

----------------------------------------------------------------------------
(* The mutating operations.  DB._exec runs a statement and commits, so a   *)
(* statement that succeeds makes durable everything the connection sees;   *)
(* a statement that raises leaves both as they were.  DB._exec_many runs   *)
(* its statements without committing: they stay in the connection's open   *)
(* transaction until a later statement commits.                            *)

(* DB._exec of a statement that changes what the connection sees *)
exec(new_live) ==
    /\ live' = new_live
    /\ disk' = [disk EXCEPT ![handle.path] = new_live]

HasDuplicates(s) == \E i, j \in 1..Len(s) : i # j /\ s[i] = s[j]

(* a create_table that never looks at the lengths *)
LengthsDiffer_Unchecked(fields, types) == FALSE

(* line 77: len(fields) != len(types) *)
LengthsDiffer(fields, types) == Len(fields) # Len(types)

(* zip(fields, types): as many columns as the shorter list has *)
Zipped(fields, types) ==
    SubSeq(fields, 1, IF Len(types) < Len(fields) THEN Len(types) ELSE Len(fields))

(* DB.create_table *)
create_table(table_name, fields, types) ==
    /\ UNCHANGED palvars
    /\ handle.open
    /\ UNCHANGED handle
    /\ LET Call(out) ==
               [op |-> "create_table", table |-> table_name, fields |-> fields,
                types |-> types, out |-> out, pre |-> live,
                pre_disk |-> disk[handle.path]]
           columns == Zipped(fields, types)
       IN  IF LengthsDiffer(fields, types)
           THEN /\ last' = Call(Raise("ConfigError"))
                /\ UNCHANGED <<disk, live>>
           ELSE IF HasTable(live, table_name) \/ HasDuplicates(columns) \/ columns = <<>>
           THEN /\ last' = Call(Raise("OperationalError"))
                /\ UNCHANGED <<disk, live>>
           ELSE /\ last' = Call(Ok(PyNone))
                /\ exec(WithTable(live, table_name, Table(columns, <<>>)))

(* DB.drop_table: DROP TABLE IF EXISTS *)
drop_table(table_name) ==
    /\ UNCHANGED palvars
    /\ handle.open
    /\ UNCHANGED handle
    /\ last' = [op |-> "drop_table", table |-> table_name, out |-> Ok(PyNone)]
    /\ exec(WithoutTable(live, table_name))

(* a caller's INSERT INTO table VALUES(...) through DB._exec *)
insert_row(table_name, row) ==
    /\ UNCHANGED palvars
    /\ handle.open
    /\ UNCHANGED handle
    /\ HasTable(live, table_name)
    /\ Len(row) = Len(live.tables[table_name].cols)
    /\ last' = [op |-> "insert", table |-> table_name, out |-> Ok(PyNone)]
    /\ exec(WithRows(live, table_name, Append(Rows(live, table_name), row)))

(* INSERT INTO self VALUES(?,?) *)
MetaInserted(f, key, value) ==
    WithRows(f, "self", Append(Rows(f, "self"), <<key, SqlText(value)>>))

(* DELETE FROM self WHERE key="<key>": sqlite reads a double-quoted word   *)
(* that names a column as that column, and as a string otherwise           *)
MetaRowDeleted(r, key) ==
    IF key = K_key THEN TRUE
    ELSE IF key = K_value THEN r[2] = PyStr(r[1])
    ELSE r[1] = key

MetaRemoved(f, key) ==
    WithRows(f, "self", SelectSeq(Rows(f, "self"), LAMBDA r : ~MetaRowDeleted(r, key)))

(* DB.set_meta_value *)
set_meta_value(key, value) ==
    /\ UNCHANGED palvars
    /\ handle.open
    /\ UNCHANGED handle
    /\ IF ~HasTable(live, "self")
       THEN /\ last' = [op |-> "set", key |-> key, value |-> value,
                        out |-> Raise("OperationalError")]
            /\ UNCHANGED <<disk, live>>
       ELSE /\ last' = [op |-> "set", key |-> key, value |-> value,
                        out |-> Ok(PyNone)]
            /\ exec(MetaInserted(live, key, value))

(* DB.remove_meta_key_value_pair *)
remove_meta_key_value_pair(key) ==
    /\ UNCHANGED palvars
    /\ handle.open
    /\ UNCHANGED handle
    /\ IF ~HasTable(live, "self")
       THEN /\ last' = [op |-> "remove", key |-> key,
                        out |-> Raise("OperationalError")]
            /\ UNCHANGED <<disk, live>>
       ELSE /\ last' = [op |-> "remove", key |-> key, out |-> Ok(PyNone)]
            /\ exec(MetaRemoved(live, key))

(* DB.update_meta_value: remove, then set *)
update_meta_value(key, value) ==
    /\ UNCHANGED palvars
    /\ handle.open
    /\ UNCHANGED handle
    /\ IF ~HasTable(live, "self")
       THEN /\ last' = [op |-> "update", key |-> key, value |-> value,
                        out |-> Raise("OperationalError"), pre |-> live]
            /\ UNCHANGED <<disk, live>>
       ELSE /\ last' = [op |-> "update", key |-> key, value |-> value,
                        out |-> Ok(PyNone), pre |-> live]
            /\ exec(MetaInserted(MetaRemoved(live, key), key, value))

(* a paste that goes on with a donor that has no rows *)
DonorIsEmpty_Never(data) == FALSE

(* line 111: `if not len(data): return` *)
DonorIsEmpty(data) == Len(data) = 0

(* a paste that keeps the rows already there *)
Pasted_NoDelete(rows, data) == rows \o data

(* lines 114-115: the rows of the table after DELETE and the INSERTs *)
Pasted(rows, data) == data

(* DB.copy_paste.  The donor is read through a connection of its own,      *)
(* which sees what is committed at its path.                               *)
copy_paste(table_name, source_db_path) ==
    /\ UNCHANGED palvars
    /\ handle.open
    /\ UNCHANGED handle
    /\ LET source == disk[source_db_path]
           Call(data, out) ==
               [op |-> "copy_paste", table |-> table_name,
                source |-> source_db_path, data |-> data, out |-> out,
                pre |-> live]
       IN  IF ~source.exists \/ get_version(source).kind # "ok"
           THEN /\ last' = Call(<<>>, Raise("ConfigError"))
                /\ UNCHANGED <<disk, live>>
           ELSE IF ~HasTable(source, table_name)
           THEN /\ last' = Call(<<>>, Raise("OperationalError"))
                /\ UNCHANGED <<disk, live>>
           ELSE LET data == Rows(source, table_name)
                IN  IF DonorIsEmpty(data)
                    THEN /\ last' = Call(data, Ok(PyNone))
                         /\ UNCHANGED <<disk, live>>
                    ELSE IF ~HasTable(live, table_name)
                    THEN /\ last' = Call(data, Raise("OperationalError"))
                         /\ UNCHANGED <<disk, live>>
                    ELSE IF data # <<>> /\ Len(data[1]) # Len(live.tables[table_name].cols)
                    THEN /\ last' = Call(data, Raise("OperationalError"))
                         /\ exec(WithRows(live, table_name, <<>>))
                    ELSE /\ last' = Call(data, Ok(PyNone))
                         (* _exec: the DELETE, committed *)
                         /\ disk' = [disk EXCEPT ![handle.path] =
                                        WithRows(live, table_name, <<>>)]
                         (* _exec_many: the INSERTs, not committed *)
                         /\ live' = WithRows(live, table_name,
                                             Pasted(Rows(live, table_name), data))

(* DB.get_meta_value on the open store *)
read_meta_value(key) ==
    /\ UNCHANGED palvars
    /\ handle.open
    /\ last' = [op |-> "get", key |-> key, out |-> get_meta_value(live, key),
                pre |-> live]
    /\ disk' = IF HasTable(live, "self") THEN Committed ELSE disk
    /\ UNCHANGED <<live, handle>>

(* a listing that leaves the metadata table out *)
TableNames_UserOnly(f) == DOMAIN f.tables \ {"self"}

(* lines 276-277: the names of sqlite_master's tables *)
TableNames(f) == DOMAIN f.tables

(* DB.get_table_names: every table of sqlite_master *)
get_table_names ==
    /\ UNCHANGED palvars
    /\ handle.open
    /\ last' = [op |-> "get_table_names", out |-> Ok(TableNames(live))]
    /\ disk' = Committed
    /\ UNCHANGED <<live, handle>>

(* the process ends without DB.disconnect: what was not committed is gone *)
crash ==
    /\ UNCHANGED palvars
    /\ handle.open
    /\ live' = NoFile
    /\ handle' = Closed
    /\ last' = [op |-> "crash"]
    /\ UNCHANGED disk

----------------------------------------------------------------------------
(* The store in use: a store at p1, created, opened, changed and closed,   *)
(* and a donor store at p2 for copy_paste.                                 *)

MetaKeys == {K_version, <<"k">>}

MetaValues == {PyInt(5), PyStr(<<"a">>)}

FieldLists == {<<"id">>, <<"id", "seq">>}

TypeLists == {<<"text">>, <<"text", "text">>}

(* the row callers insert into a table of n columns *)
RowsFor(n) == {[i \in 1..n |-> PyStr(<<"5">>)]}

(* the donor's rows differ from every row callers insert *)
DonorRow == <<PyInt(5), PyStr(<<"5">>)>>

DonorTables ==
    {Table(<<"id", "seq">>, r) : r \in SeqsUpTo({DonorRow}, MaxRows)}
    \cup {Table(<<"id">>, << <<PyInt(5)>> >>)}

DonorFiles ==
    {NoFile, FreshFile(PyInt(5))}
    \cup {WithTable(FreshFile(PyInt(5)), "t", tbl) : tbl \in DonorTables}

Init ==
    /\ NoSearch
    /\ disk \in {[p \in Paths |-> IF p = "p1" THEN NoFile ELSE f] : f \in DonorFiles}
    /\ live = NoFile
    /\ handle = Closed
    /\ last = [op |-> "none"]

Next ==
    \/ \E new_database \in BOOLEAN, ignore_version \in BOOLEAN :
          DB_init("p1", PyInt(5), new_database, ignore_version)
    \/ disconnect
    \/ crash
    \/ \E fields \in FieldLists, types \in TypeLists : create_table("t", fields, types)
    \/ \E name \in {"t", "self"} : drop_table(name)
    \/ \E n \in 1..2 : \E row \in RowsFor(n) :
          /\ HasTable(live, "t")
          /\ Len(Rows(live, "t")) < MaxRows
          /\ insert_row("t", row)
    \/ \E key \in MetaKeys, value \in MetaValues :
          /\ HasTable(live, "self") => Len(Rows(live, "self")) < MaxMetaRows
          /\ set_meta_value(key, value)
    \/ \E key \in MetaKeys : remove_meta_key_value_pair(key)
    \/ \E key \in MetaKeys, value \in MetaValues :
          /\ HasTable(live, "self") => Len(Rows(MetaRemoved(live, key), "self")) < MaxMetaRows
          /\ update_meta_value(key, value)
    \/ \E source \in Paths : copy_paste("t", source)
    \/ \E key \in MetaKeys : read_meta_value(key)
    \/ get_table_names

Spec == Init /\ [][Next]_vars

----------------------------------------------------------------------------
(* The metadata table on its own: a store whose metadata table holds any   *)
(* stored value, rows of other entries and repeated keys, opened with the  *)
(* override and then read and written through the metadata calls, with the *)
(* keys that are also the names of the table's columns among the keys.     *)

MetaCallKeys == MetaKeys \cup {K_key, K_value}

MetaFiles == {File("self" :> Table(<<"key", "value">>, m)) : m \in GateMetaTables}

InitMeta ==
    /\ NoSearch
    /\ disk \in {[p \in Paths |-> IF p = "p1" THEN f ELSE NoFile] : f \in MetaFiles}
    /\ live = NoFile
    /\ handle = Closed
    /\ last = [op |-> "none"]

NextMeta ==
    \/ DB_init("p1", PyNone, FALSE, TRUE)
    \/ \E key \in MetaCallKeys, value \in MetaValues :
          /\ HasTable(live, "self") => Len(Rows(live, "self")) < MaxMetaRows
          /\ set_meta_value(key, value)
    \/ \E key \in MetaCallKeys : remove_meta_key_value_pair(key)
    \/ \E key \in MetaCallKeys, value \in MetaValues :
          /\ HasTable(live, "self") => Len(Rows(MetaRemoved(live, key), "self")) < MaxMetaRows
          /\ update_meta_value(key, value)
    \/ \E key \in MetaCallKeys : read_meta_value(key)

SpecMeta == InitMeta /\ [][NextMeta]_vars

----------------------------------------------------------------------------
(* Palindromes.find: the loop over the records of the search report.  The  *)
(* report is the search tool's: any records, in any order.  A record is    *)
(* its four coordinates (1-based, inclusive; the search is run on the      *)
(* minus strand, where hit-from is not before hit-to); the alignment       *)
(* length, the gap and identity counts and the sequences of a record pass  *)
(* through to the palindrome without entering any decision.                *)

MaxPos == 2
MaxHsps == 2

Hsps ==
    {[query_from |-> qf, query_to |-> qt, hit_from |-> hf, hit_to |-> ht] :
        qf \in 1..MaxPos, qt \in 1..MaxPos, hf \in 1..MaxPos, ht \in 1..MaxPos}

MinusStrandHsps == {h \in Hsps : h.query_from <= h.query_to /\ h.hit_to <= h.hit_from}

(* lines 193-200 and 211: the palindrome of a record *)
Palindrome(hsp) ==
    [first_start |-> hsp.query_from - 1,
     first_end |-> hsp.query_to,
     second_start |-> hsp.hit_to - 1,
     second_end |-> hsp.hit_from,
     distance |-> (hsp.hit_to - 1) - (hsp.query_from - 1)]

(* line 202: the record's position has been seen *)
AlreadyProcessed(p, processed) == p.first_start \in processed

(* line 205: the position kept for an accepted record *)
Processed(p, processed) == processed \cup {p.second_end}

(* lines 156 and 187: an empty list for the sequence, an empty set *)
InitPal ==
    /\ hsps \in SeqsUpTo(MinusStrandHsps, MaxHsps)
    /\ positions_processed = {}
    /\ palindromes = <<>>
    /\ disk = [p \in Paths |-> NoFile]
    /\ live = NoFile
    /\ handle = Closed
    /\ last = [op |-> "none"]

(* lines 192-227: one pass of the loop body *)
parse_hsp ==
    /\ hsps # <<>>
    /\ hsps' = Tail(hsps)
    /\ LET p == Palindrome(Head(hsps))
       IN  IF AlreadyProcessed(p, positions_processed)
           THEN UNCHANGED <<positions_processed, palindromes>>
           ELSE /\ positions_processed' = Processed(p, positions_processed)
                /\ palindromes' = Append(palindromes, p)
    /\ UNCHANGED dbvars

NextPal == parse_hsp

SpecPal == InitPal /\ [][NextPal]_vars

----------------------------------------------------------------------------
(* Claims about the version gate (checked under SpecGate).                 *)

HasVersionRow(f) ==
    HasTable(f, "self") /\ \E i \in 1..Len(Rows(f, "self")) : Rows(f, "self")[i][1] = K_version

(* the value stored in the first `version` row, as stored *)
StoredVersion(f) == SelectSeq(Rows(f, "self"), LAMBDA r : r[1] = K_version)[1][2]

OpenedExisting ==
    last.op = "init" /\ ~last.new_database /\ HasVersionRow(last.pre)

(* C1: an open of an existing store without override succeeds if and only  *)
(* if the text stored under `version` equals the text form of              *)
(* client_version, and fails with a ConfigError otherwise.                 *)
C1_OpenSucceedsIffStoredTextEqual ==
    (OpenedExisting /\ ~last.ignore_version /\ StoredVersion(last.pre).t = "str")
    => /\ last.outcome = "ok"
            <=> StoredVersion(last.pre) = PyStr(Str(last.client_version))
       /\ last.outcome \in {"ok", "ConfigError"}

StoredDiffersFromClient ==
    OpenedExisting /\ StoredVersion(last.pre) # PyStr(Str(last.client_version))

(* C2: an open with override of a store whose stored version differs from  *)
(* client_version succeeds, the handle's version is the stored value as    *)
(* get reads it, and the file and what the connection sees are exactly     *)
(* the file as it was before the open.                                     *)
C2_OverrideOpensWithoutMigration ==
    (StoredDiffersFromClient /\ last.ignore_version)
    => /\ last.outcome = "ok"
       /\ handle.open
       /\ handle.version = get_meta_value(last.pre, K_version).val
       /\ disk[last.path] = last.pre
       /\ live = last.pre

C2_Witness ==
    /\ StoredDiffersFromClient
    /\ last.ignore_version
    /\ Str(get_meta_value(last.pre, K_version).val) # Str(last.client_version)
    /\ HasTable(last.pre, "t")
    /\ Len(Rows(last.pre, "self")) > 1
    /\ handle.open
    /\ handle.version = PyInt(5)

(* C3: after a store is created with client_version v, the handle's        *)
(* version and the `version` entry read back from it are exactly v.        *)
C3_CreatedVersionReadsBack ==
    (last.op = "init" /\ last.new_database /\ last.outcome = "ok")
    => /\ handle.version = last.client_version
       /\ get_meta_value(live, K_version) = Ok(last.client_version)

----------------------------------------------------------------------------
(* Claims about the dict materializer (checked under SpecDict).            *)

TheTable == live.tables["t"]

Column0Values == {TheTable.rows[i][1] : i \in 1..Len(TheTable.rows)}

(* the key under which a column-0 value is returned *)
KeyOf(value) == IF last.string_the_key THEN PyStr(Str(value)) ELSE value

(* the last row whose column-0 value is returned under key k *)
LastRowOf(k) ==
    LET rows == TheTable.rows
        i == CHOOSE i \in 1..Len(rows) :
                /\ KeyOf(rows[i][1]) = k
                /\ \A j \in 1..Len(rows) : KeyOf(rows[j][1]) = k => j <= i
    IN  rows[i]

(* the value of a row in the column of a given name *)
Cell(row, name) == row[IndexOf(name, TheTable.cols) + 1]

(* the columns after column 0 that the exclusions leave: not the parent    *)
(* column when it is omitted, and of interest when columns_of_interest     *)
(* says anything                                                           *)
Surviving ==
    {c \in {TheTable.cols[i] : i \in 2..Len(TheTable.cols)} :
        /\ ~(last.omit_parent_column /\ c = "__parent__")
        /\ Truthy(last.columns_of_interest) => c \in last.columns_of_interest.s}

(* C4: with a non-empty keys_of_interest the keys of the result are        *)
(* exactly the column-0 values of the rows that are in keys_of_interest.   *)
C4_OnlyKeysOfInterest ==
    (/\ last.op = "as_dict"
     /\ Truthy(last.keys_of_interest)
     /\ Surviving # {}
     /\ last.out.kind = "ok")
    => DOMAIN last.out.val =
          {KeyOf(v) : v \in Column0Values \cap last.keys_of_interest.s}

(* C5: without key filtering (and without omit_parent_column), when a      *)
(* column other than column 0 survives columns_of_interest, the result has *)
(* one entry per column-0 value, under that value or its string form, and  *)
(* the entry maps exactly the surviving column names to the values of the  *)
(* (last) row with that key; column 0 is the key and never a field.        *)
C5_EntriesPerKey ==
    (/\ last.op = "as_dict"
     /\ ~Truthy(last.keys_of_interest)
     /\ ~last.omit_parent_column
     /\ Surviving # {})
    => /\ last.out.kind = "ok"
       /\ DOMAIN last.out.val = {KeyOf(v) : v \in Column0Values}
       /\ \A k \in DOMAIN last.out.val :
             /\ DOMAIN last.out.val[k] = Surviving
             /\ TheTable.cols[1] \notin DOMAIN last.out.val[k]
             /\ \A c \in Surviving : last.out.val[k][c] = Cell(LastRowOf(k), c)

C5_Witness ==
    /\ last.op = "as_dict"
    /\ last.keys_of_interest = NoneArg
    /\ ~last.omit_parent_column
    /\ last.columns_of_interest = Given({"seq"})
    /\ TheTable.cols = <<"id", "__parent__", "seq">>
    /\ Len(TheTable.rows) = 2
    /\ Cardinality(DOMAIN last.out.val) = 2
    /\ \A k \in DOMAIN last.out.val : DOMAIN last.out.val[k] = {"seq"}

(* C6: with omit_parent_column and a `__parent__` column after column 0    *)
(* (and some other column left to return), the call completes and every    *)
(* entry has no `__parent__` field and maps each returned column to the    *)
(* row's value in that column.                                             *)
C6_ParentOmitted ==
    (/\ last.op = "as_dict"
     /\ last.omit_parent_column
     /\ \E i \in 2..Len(TheTable.cols) : TheTable.cols[i] = "__parent__"
     /\ Surviving # {})
    => /\ last.out.kind = "ok"
       /\ \A k \in DOMAIN last.out.val :
             /\ "__parent__" \notin DOMAIN last.out.val[k]
             /\ \E i \in 1..Len(TheTable.rows) :
                   /\ KeyOf(TheTable.rows[i][1]) = k
                   /\ \A c \in DOMAIN last.out.val[k] :
                         last.out.val[k][c] = Cell(TheTable.rows[i], c)

(* C7: when the exclusions leave column 0 alone, the call fails with a     *)
(* ConfigError if error_if_no_data is set and returns an empty mapping if  *)
(* not, whatever the rows.                                                 *)
C7_OnlyKeyColumnLeft ==
    (/\ last.op = "as_dict"
     /\ ~(last.omit_parent_column /\ TheTable.cols[1] = "__parent__")
     /\ Surviving = {})
    => IF last.error_if_no_data
       THEN last.out.kind = "ConfigError"
       ELSE last.out = Ok(<<>>)

NoRowMatches ==
    /\ last.op = "as_dict_where"
    /\ InSeq(last.where_clause.column, TheTable.cols)
    /\ Matches(live, "t", last.where_clause) = <<>>

(* C8 as stated: whenever no row matches, as_dict_where fails with a       *)
(* ConfigError, whatever its arguments.                                    *)
C8_NoMatchAlwaysFails == NoRowMatches => last.out.kind = "ConfigError"

(* C8 as amended: when no row matches, as_dict_where fails with a          *)
(* ConfigError if error_if_no_data is set (the default) and returns an     *)
(* empty mapping if it is not.                                             *)
C8_NoMatchFailsUnlessAllowed ==
    NoRowMatches
    => IF last.error_if_no_data
       THEN last.out.kind = "ConfigError"
       ELSE last.out = Ok(<<>>)

C8_Witness ==
    /\ NoRowMatches
    /\ ~last.error_if_no_data
    /\ Len(TheTable.rows) > 0
    /\ last.out = Ok(<<>>)

----------------------------------------------------------------------------
(* Claims about the store in use (checked under Spec).                     *)

RowSet(rows) == {rows[i] : i \in 1..Len(rows)}

(* C9: every mutating operation has committed all of its changes when it   *)
(* returns: between operations, what the handle sees is what is committed. *)
C9_EverythingCommitted == handle.open => live = disk[handle.path]

PastedFromDonor ==
    /\ last.op = "copy_paste"
    /\ Len(last.data) > 0
    /\ last.out.kind = "ok"

(* C10: a copy_paste from a donor table with at least one row that         *)
(* completes leaves the destination table with exactly the donor's rows,   *)
(* as a set, whatever rows it held before.                                 *)
C10_DonorRowsReplaceDestination ==
    PastedFromDonor
    => RowSet(Rows(live, last.table)) = RowSet(last.data)

C10_Witness ==
    /\ PastedFromDonor
    /\ last.source = "p2"
    /\ Len(Rows(last.pre, last.table)) = MaxRows
    /\ RowSet(Rows(last.pre, last.table)) \cap RowSet(last.data) = {}
    /\ RowSet(Rows(live, last.table)) = RowSet(last.data)

(* the last call was a copy_paste whose donor could be read and whose      *)
(* donor table has no rows (no branch that reads no rows writes the donor) *)
PastedFromEmptyDonor ==
    /\ last.op = "copy_paste"
    /\ disk[last.source].exists
    /\ get_version(disk[last.source]).kind = "ok"
    /\ HasTable(disk[last.source], last.table)
    /\ Rows(disk[last.source], last.table) = <<>>
    /\ last.data = <<>>

(* C11: a copy_paste whose donor table has no rows changes nothing in the  *)
(* destination: the destination table keeps the rows it had (it is not     *)
(* truncated), no other table changes, and the call returns normally.      *)
C11_EmptyDonorChangesNothing ==
    PastedFromEmptyDonor
    => /\ last.out = Ok(PyNone)
       /\ live = last.pre

C11_Witness ==
    /\ PastedFromEmptyDonor
    /\ last.out = Ok(PyNone)
    /\ HasTable(last.pre, last.table)
    /\ Len(Rows(last.pre, last.table)) = MaxRows
    /\ Rows(live, last.table) = Rows(last.pre, last.table)

(* C14: once the store has been created, whatever metadata and table calls *)
(* follow, the metadata table exists and holds at least one row whose key  *)
(* is `version`, in what the handle sees and in what is committed.         *)
C14_VersionRowAlwaysThere ==
    /\ handle.open => HasVersionRow(live)
    /\ disk["p1"].exists => HasVersionRow(disk["p1"])

MismatchedCreate ==
    /\ last.op = "create_table"
    /\ Len(last.fields) # Len(last.types)

(* C16: a create_table whose fields and types differ in length fails with  *)
(* a ConfigError and has issued no backend statement: the tables and their *)
(* contents are the same after the call as before it, both as the handle   *)
(* sees them and as committed.                                             *)
C16_MismatchFailsBeforeAnyStatement ==
    MismatchedCreate
    => /\ last.out.kind = "ConfigError"
       /\ live = last.pre
       /\ disk[handle.path] = last.pre_disk

C16_Witness ==
    /\ MismatchedCreate
    /\ last.out.kind = "ConfigError"
    /\ ~HasTable(last.pre, last.table)
    /\ ~HasTable(live, last.table)
    /\ HasVersionRow(live)

UserTables(f) == DOMAIN f.tables \ {"self"}

Listed == last.op = "get_table_names" /\ last.out.kind = "ok"

(* C17 as stated: get_table_names returns exactly the user tables that are *)
(* currently defined; the reserved metadata table is not among them.       *)
C17_ListsExactlyUserTables == Listed => last.out.val = UserTables(live)

(* C17, amended: get_table_names returns every table currently defined:    *)
(* the user tables created and not since dropped, and also the reserved    *)
(* metadata table `self` for as long as it has not been dropped.           *)
C17_ListsUserTablesAndSelf ==
    Listed
    => /\ UserTables(live) \subseteq last.out.val
       /\ last.out.val \ UserTables(live) = {n \in {"self"} : HasTable(live, n)}

C17_Witness ==
    /\ Listed
    /\ last.out.val = {"self", "t"}
    /\ HasVersionRow(live)

----------------------------------------------------------------------------
(* Claims about the metadata table (checked under SpecMeta).               *)

RowsOfKey(f, key) == SelectSeq(Rows(f, "self"), LAMBDA r : r[1] = key)

RowsOfOtherKeys(f, key) == SelectSeq(Rows(f, "self"), LAMBDA r : r[1] # key)

Updated == last.op = "update" /\ last.out.kind = "ok"

(* C12: after update_meta_value(key, value) has returned, the metadata     *)
(* table holds exactly one row for the key, its value is the text of the   *)
(* value just passed, and the rows of all other keys are what they were,   *)
(* however many rows the key had before and however often it is updated.   *)
C12_UpdateLeavesOneRowForKey ==
    Updated
    => /\ Len(RowsOfKey(live, last.key)) = 1
       /\ Str(RowsOfKey(live, last.key)[1][2]) = Str(last.value)
       /\ RowsOfOtherKeys(live, last.key) = RowsOfOtherKeys(last.pre, last.key)

Got == last.op = "get" /\ HasTable(last.pre, "self")

(* the position of the first row of the key in stored order, 0 if none *)
FirstRowOfKey(f, key) ==
    LET rows == Rows(f, "self")
        hits == {i \in 1..Len(rows) : rows[i][1] = key}
    IN  IF hits = {} THEN 0 ELSE CHOOSE i \in hits : \A j \in hits : i <= j

(* C13: get_meta_value(key) returns the value of the first row of the key  *)
(* in stored order: a null as null, a text that parses as an integer as    *)
(* that integer, any other text as it is; with no row of the key it fails  *)
(* with a ConfigError; and it leaves the metadata table as it was.         *)
C13_GetReturnsFirstRowCoerced ==
    Got
    => LET i == FirstRowOfKey(last.pre, last.key)
           stored == Rows(last.pre, "self")[i][2]
       IN  /\ live = last.pre
           /\ IF i = 0 THEN last.out.kind = "ConfigError"
              ELSE /\ last.out.kind = "ok"
                   /\ stored.t = "none" => last.out.val = PyNone
                   /\ (stored.t = "str" /\ IntParses(stored.v))
                      => last.out.val = PyInt(IntValue(stored.v))
                   /\ (stored.t = "str" /\ ~IntParses(stored.v))
                      => last.out.val = stored

(* the first of two rows of the key holds "5", the second another text *)
C13_Witness ==
    /\ Got
    /\ Len(RowsOfKey(last.pre, last.key)) = 2
    /\ RowsOfKey(last.pre, last.key)[1][2] = PyStr(<<"5">>)
    /\ RowsOfKey(last.pre, last.key)[2][2] = PyStr(<<"a">>)
    /\ last.out = Ok(PyInt(5))

----------------------------------------------------------------------------
(* Claims about re-creating a store (checked under SpecGate).              *)

Recreated == last.op = "init" /\ last.new_database /\ last.pre.exists

(* C15: DB(path, client_version, new_database=True) on a path that holds a *)
(* store succeeds and discards all of it: the file then holds the metadata *)
(* table only, with the single row (`version`, text of client_version);    *)
(* no user table and no metadata entry of the previous file is left.       *)
C15_CreateDiscardsPreviousStore ==
    Recreated
    => /\ last.outcome = "ok"
       /\ DOMAIN disk[last.path].tables = {"self"}
       /\ Len(Rows(disk[last.path], "self")) = 1
       /\ Rows(disk[last.path], "self")[1][1] = K_version
       /\ Str(Rows(disk[last.path], "self")[1][2]) = Str(last.client_version)
       /\ live = disk[last.path]

C15_Witness ==
    /\ Recreated
    /\ HasTable(last.pre, "t")
    /\ HasTable(last.pre, "self")
    /\ HasVersionRow(last.pre)
    /\ Len(Rows(last.pre, "self")) = MaxMetaRows
    /\ last.outcome = "ok"
    /\ StoredVersion(last.pre) # Rows(live, "self")[1][2]
    /\ DOMAIN live.tables = {"self"}

----------------------------------------------------------------------------
(* Claims about Palindromes.find (checked under SpecPal).                  *)

(* C18: a record whose query start is that of a record accepted earlier in *)
(* the same report is skipped, so the palindromes recorded for a sequence  *)
(* never hold two entries with the same first_start.                       *)
C18_NoTwoEntriesShareFirstStart ==
    \A i, j \in 1..Len(palindromes) :
        i # j => palindromes[i].first_start # palindromes[j].first_start

====
